---- MODULE Spec2Model ----
(***************************************************************************)
(* MemStorage of server/storage.ts: four maps keyed by generated ids, and  *)
(* the balance adjustment that createTransaction, updateTransaction and    *)
(* deleteTransaction perform on the account a transaction is posted to.    *)
(*                                                                         *)
(* Numeric strings.  Account.balance and Transaction.amount are strings.   *)
(* A string that spells a decimal with at most two fractional digits is    *)
(* modelled as [cents |-> c] (it spells c/100; "125" and "125.00" are the  *)
(* same value); any other string Number.prototype.toString can produce is  *)
(* modelled as [num |-> d], d the double it spells.                        *)
(*                                                                         *)
(* Doubles.  parseFloat, + and - work on IEEE-754 binary64 values.  A      *)
(* double is modelled exactly, as [neg |-> sign, mag |-> m], where m is    *)
(* the magnitude in units of 2^-72 written in Limbs limbs of 24 bits,      *)
(* least significant first: mag[4] is the integer part.  Every double      *)
(* whose magnitude lies in [2^-20, 2^24) is a multiple of 2^-72, and so    *)
(* are the exact sums and differences of such doubles.                     *)
(***************************************************************************)
EXTENDS Integers, Sequences, FiniteSets, TLC

VARIABLES accounts, categories, transactions, glossaryTerms, nextId, ret,
          openingBalance, old, issued, running

vars == <<accounts, categories, transactions, glossaryTerms, nextId, ret,
          openingBalance, old, issued, running>>
store == <<accounts, categories, transactions, glossaryTerms>>

\* The four maps, as one value.
Snapshot ==
  [accounts |-> accounts, categories |-> categories,
   transactions |-> transactions, glossaryTerms |-> glossaryTerms]

(***************************************************************************)
(* IEEE-754 binary64 arithmetic, round to nearest, ties to even.           *)
(***************************************************************************)
Base == 2^24
\* A magnitude is a tuple of digits to the base Base, lowest first: three
\* digits of fraction and one of whole units.
Zeros == <<0, 0, 0, 0>>
Limbs == Len(Zeros)
Precision == 53

RECURSIVE BitLenInt(_)
\* Number of significant bits of the integer n >= 0.
BitLenInt(n) ==
  IF n >= 4096 THEN 12 + BitLenInt(n \div 4096)
  ELSE IF n >= 64 THEN 6 + BitLenInt(n \div 64)
  ELSE IF n >= 8 THEN 3 + BitLenInt(n \div 8)
  ELSE <<0, 1, 2, 2, 3, 3, 3, 3>>[n + 1]

RECURSIVE TopLimb(_, _)
TopLimb(m, i) == IF i = 0 THEN 0 ELSE IF m[i] # 0 THEN i ELSE TopLimb(m, i - 1)

\* Number of significant bits of the magnitude m.
BitLen(m) ==
  LET t == TopLimb(m, Limbs)
  IN IF t = 0 THEN 0 ELSE 24 * (t - 1) + BitLenInt(m[t])

RECURSIVE MagCmpFrom(_, _, _)
MagCmpFrom(a, b, i) ==
  IF i = 0 THEN 0
  ELSE IF a[i] > b[i] THEN 1
  ELSE IF a[i] < b[i] THEN -1
  ELSE MagCmpFrom(a, b, i - 1)

MagCmp(a, b) == MagCmpFrom(a, b, Limbs)

RECURSIVE MagAddFrom(_, _, _, _)
MagAddFrom(a, b, i, carry) ==
  LET s == a[i] + b[i] + carry
  IN IF i = Limbs THEN <<s>>
     ELSE <<s % Base>> \o MagAddFrom(a, b, i + 1, s \div Base)

MagAdd(a, b) == MagAddFrom(a, b, 1, 0)

RECURSIVE MagSubFrom(_, _, _, _)
MagSubFrom(a, b, i, borrow) ==
  LET s == a[i] - b[i] - borrow
  IN IF i = Limbs THEN <<s>>
     ELSE IF s < 0 THEN <<s + Base>> \o MagSubFrom(a, b, i + 1, 1)
     ELSE <<s>> \o MagSubFrom(a, b, i + 1, 0)

\* a - b for magnitudes a >= b.
MagSub(a, b) == MagSubFrom(a, b, 1, 0)

Pow2Mag(k) == [i \in 1..Limbs |-> IF i = (k \div 24) + 1 THEN 2^(k % 24) ELSE 0]

\* The lowest s bits of m.
LowBits(m, s) ==
  [i \in 1..Limbs |->
     IF i < (s \div 24) + 1 THEN m[i]
     ELSE IF i = (s \div 24) + 1 THEN m[i] % (2^(s % 24))
     ELSE 0]

BitAt(m, s) == (m[(s \div 24) + 1] \div (2^(s % 24))) % 2

\* m rounded to Precision significant bits, to nearest, ties to even.
RoundToPrecision(m) ==
  LET len == BitLen(m)
      s == len - Precision
  IN IF s <= 0 THEN m
     ELSE LET low == LowBits(m, s)
              kept == MagSub(m, low)
              c == MagCmp(low, Pow2Mag(s - 1))
          IN IF c > 0 \/ (c = 0 /\ BitAt(m, s) = 1)
             THEN MagAdd(kept, Pow2Mag(s))
             ELSE kept

MkNum(neg, m) == [neg |-> neg /\ m # Zeros, mag |-> m]

\* The double nearest to c/100: long division of |c| * 2^72 by 100, the
\* remainder kept as a sticky lowest bit, then rounded.
DecimalToNumber(c) ==
  LET a == IF c < 0 THEN -c ELSE c
      r0 == a % 100
      d3 == (r0 * Base) \div 100
      r1 == (r0 * Base) % 100
      d2 == (r1 * Base) \div 100
      r2 == (r1 * Base) % 100
      d1 == (r2 * Base) \div 100
      r3 == (r2 * Base) % 100
      sticky == IF r3 # 0 /\ d1 % 2 = 0 THEN 1 ELSE 0
  IN MkNum(c < 0, RoundToPrecision(<<d1 + sticky, d2, d3, a \div 100>>))

\* x + y in binary64: the exact sum, rounded.
NumAdd(x, y) ==
  IF x.neg = y.neg THEN MkNum(x.neg, RoundToPrecision(MagAdd(x.mag, y.mag)))
  ELSE IF MagCmp(x.mag, y.mag) >= 0
       THEN MkNum(x.neg, RoundToPrecision(MagSub(x.mag, y.mag)))
       ELSE MkNum(y.neg, RoundToPrecision(MagSub(y.mag, x.mag)))

NumNeg(x) == MkNum(~x.neg, x.mag)

\* x - y in binary64.
NumSub(x, y) == NumAdd(x, NumNeg(y))

RECURSIVE MagTimes100From(_, _, _)
MagTimes100From(m, i, carry) ==
  LET p == m[i] * 100 + carry
  IN IF i = Limbs THEN <<p>>
     ELSE <<p % Base>> \o MagTimes100From(m, i + 1, p \div Base)

\* The integer nearest to 100 * x.
NearestCents(x) ==
  LET p == MagTimes100From(x.mag, 1, 0)
      n == p[Limbs] + (IF p[Limbs - 1] >= Base \div 2 THEN 1 ELSE 0)
  IN IF x.neg THEN -n ELSE n

\* The string "c/100" with at most two fractional digits.
Dec(c) == [cents |-> c]

\* parseFloat(s): the double nearest to the decimal that s spells.
ParseFloat(s) ==
  IF "cents" \in DOMAIN s THEN DecimalToNumber(s.cents) ELSE s.num

\* Number.prototype.toString: the shortest decimal that parseFloat reads
\* back as x.  It has at most two fractional digits exactly when x is the
\* double nearest to a whole number of cents; otherwise it is the long
\* expansion that identifies x.
NumberToString(x) ==
  LET c == NearestCents(x)
  IN IF DecimalToNumber(c) = x THEN Dec(c) ELSE [num |-> x]

(***************************************************************************)
(* The store.  A Map is a function from the stored keys to the records.    *)
(* randomUUID never repeats a value: ids are drawn from the counter        *)
(* nextId.  ret is the call that has returned, with its arguments and the  *)
(* value it returned, until the caller that awaits the call has taken it.  *)
(* Three variables are history: openingBalance is the balance each         *)
(* account was created with, old is the four maps as the call that has     *)
(* returned found them, and issued is, for each map, the ids that have     *)
(* ever been keys of it.  running is, for each caller that starts calls   *)
(* without awaiting the ones in flight, the call it has started: the await *)
(* it is suspended at, and the transaction record it read when it started. *)
(***************************************************************************)

\* defaultAccounts, in the order initializeDefaults creates them.
DefaultAccounts == <<
  [name |-> "Checking Account", type |-> "checking", balance |-> Dec(245032), isDefault |-> TRUE],
  [name |-> "Savings Account", type |-> "savings", balance |-> Dec(850000), isDefault |-> FALSE],
  [name |-> "Credit Card", type |-> "credit", balance |-> Dec(-120050), isDefault |-> FALSE],
  [name |-> "Investment Account", type |-> "investment", balance |-> Dec(1575000), isDefault |-> FALSE]>>

\* defaultCategories.
DefaultCategories == <<
  [name |-> "Food & Dining", type |-> "expense", color |-> "#3B82F6", icon |-> "utensils", isDefault |-> TRUE],
  [name |-> "Transportation", type |-> "expense", color |-> "#10B981", icon |-> "car", isDefault |-> TRUE],
  [name |-> "Entertainment", type |-> "expense", color |-> "#8B5CF6", icon |-> "film", isDefault |-> TRUE],
  [name |-> "Shopping", type |-> "expense", color |-> "#F59E0B", icon |-> "shopping-bag", isDefault |-> TRUE],
  [name |-> "Utilities", type |-> "expense", color |-> "#EF4444", icon |-> "zap", isDefault |-> TRUE],
  [name |-> "Healthcare", type |-> "expense", color |-> "#06B6D4", icon |-> "heart", isDefault |-> TRUE],
  [name |-> "Salary", type |-> "income", color |-> "#10B981", icon |-> "dollar-sign", isDefault |-> TRUE],
  [name |-> "Freelance", type |-> "income", color |-> "#8B5CF6", icon |-> "briefcase", isDefault |-> TRUE],
  [name |-> "Investment", type |-> "income", color |-> "#F59E0B", icon |-> "trending-up", isDefault |-> TRUE]>>

\* defaultGlossaryTerms.
DefaultGlossaryTerms == <<
  [term |-> "Annual Percentage Rate (APR)",
   definition |-> "The annual rate charged for borrowing or earned through an investment, including fees and other costs associated with the transaction."],
  [term |-> "Emergency Fund",
   definition |-> "A savings account specifically designated for unexpected expenses or financial emergencies, typically containing 3-6 months of living expenses."],
  [term |-> "Net Worth",
   definition |-> "The total value of all assets minus the total value of all liabilities. It represents your overall financial position."],
  [term |-> "Budget",
   definition |-> "A plan for how to spend your money, tracking income and expenses over a specific period to help achieve financial goals."],
  [term |-> "Cash Flow",
   definition |-> "The amount of money moving in and out of your accounts over a specific period, showing your financial liquidity."],
  [term |-> "Compound Interest",
   definition |-> "Interest calculated on the initial principal and accumulated interest from previous periods, leading to exponential growth over time."],
  [term |-> "Credit Score",
   definition |-> "A numerical representation of your creditworthiness, typically ranging from 300-850, used by lenders to assess lending risk."],
  [term |-> "Debt-to-Income Ratio",
   definition |-> "The percentage of your monthly gross income that goes toward paying debts, used to measure your ability to manage monthly payments."],
  [term |-> "Diversification",
   definition |-> "An investment strategy that spreads risk by allocating investments across various financial instruments, industries, and categories."],
  [term |-> "Liquidity",
   definition |-> "How quickly and easily an asset can be converted into cash without significantly affecting its market price."]>>

\* Ids of the records the constructor creates: 4 + 9 + 10 calls of randomUUID.
SeedAccountIds == 1..Len(DefaultAccounts)
SeedCategoryIds ==
  (Len(DefaultAccounts) + 1)..(Len(DefaultAccounts) + Len(DefaultCategories))
SeedGlossaryIds ==
  (Len(DefaultAccounts) + Len(DefaultCategories) + 1)..
  (Len(DefaultAccounts) + Len(DefaultCategories) + Len(DefaultGlossaryTerms))
\* The id of the first seeded category.
FirstCategoryId == Len(DefaultAccounts) + 1
FirstNewId ==
  Len(DefaultAccounts) + Len(DefaultCategories) + Len(DefaultGlossaryTerms) + 1

\* Bound: calls of randomUUID after construction.
MaxNewIds == 1

\* An id no call of randomUUID returns.
NoSuchId == 0

\* What a call returns for "absent".
Undefined == [undefined |-> TRUE]

\* { ...a, ...p }: the fields of p override those of a.
Merge(a, p) ==
  [f \in DOMAIN a \cup DOMAIN p |-> IF f \in DOMAIN p THEN p[f] ELSE a[f]]

\* Map.prototype.set.
MapSet(map, k, v) == [x \in DOMAIN map \cup {k} |-> IF x = k THEN v ELSE map[x]]

\* Map.prototype.delete: the map without k.
MapDelete(map, k) == [x \in DOMAIN map \ {k} |-> map[x]]

\* Map.prototype.get.
MapGet(map, k) == IF k \in DOMAIN map THEN map[k] ELSE Undefined

Min(S) == CHOOSE x \in S : \A y \in S : x <= y

RECURSIVE Ascending(_)
Ascending(S) == IF S = {} THEN <<>> ELSE <<Min(S)>> \o Ascending(S \ {Min(S)})

\* Array.from(map.values()): a Map iterates in insertion order, and keys are
\* inserted in the order randomUUID produced them.
MapValues(map) == [i \in 1..Cardinality(DOMAIN map) |-> map[Ascending(DOMAIN map)[i]]]

Return(op, args, value) == [op |-> op, args |-> args, value |-> value]

\* The callers that start calls without awaiting the ones in flight.
Callers == {"a", "b"}

\* A call in flight, or returned: pc is the await the call is suspended at.
Running(pc, op, args, transaction, value) ==
  [pc |-> pc, op |-> op, args |-> args, transaction |-> transaction, value |-> value]

Idle == Running("idle", "none", <<>>, Undefined, Undefined)

\* No call is outstanding.
NoCall == Return("none", <<>>, Undefined)

\* The caller is free to make its next call.
Ready == ret = NoCall

\* initializeDefaults marking every default account as the default one.
SeededAccountsAllDefault ==
  [i \in SeedAccountIds |-> Merge(DefaultAccounts[i], [id |-> i, isDefault |-> TRUE])]

\* The maps as initializeDefaults fills them.
SeededAccounts ==
  [i \in SeedAccountIds |-> Merge(DefaultAccounts[i], [id |-> i])]

SeededCategories ==
  [i \in SeedCategoryIds |->
     Merge(DefaultCategories[i - Len(DefaultAccounts)], [id |-> i])]

SeededGlossaryTerms ==
  [i \in SeedGlossaryIds |->
     Merge(DefaultGlossaryTerms[i - Len(DefaultAccounts) - Len(DefaultCategories)],
           [id |-> i])]

NoTransactions == [i \in {} |-> Undefined]

Init ==
  /\ accounts = SeededAccounts
  /\ categories = SeededCategories
  /\ transactions = NoTransactions
  /\ glossaryTerms = SeededGlossaryTerms
  /\ nextId = FirstNewId
  /\ ret = NoCall
  /\ old = Snapshot
  /\ openingBalance = [i \in SeedAccountIds |-> DefaultAccounts[i].balance]
  /\ issued = [accounts |-> SeedAccountIds, categories |-> SeedCategoryIds,
               transactions |-> {}, glossaryTerms |-> SeedGlossaryIds]
  /\ running = [c \in Callers |-> Idle]

\* randomUUID can still be called within the bound.
CanCreate == nextId < FirstNewId + MaxNewIds

\* Ids that calls made so far have returned.
NewIds == FirstNewId..(nextId - 1)

(***************************************************************************)
(* Inputs of the calls.                                                    *)
(***************************************************************************)
\* Accounts that getAccount and deleteAccount are called on: the seeded
\* checking account, the accounts created by calls, and an id that names none.
AccountIdArgs == {1, NoSuchId} \cup (DOMAIN accounts \ SeedAccountIds)
\* Accounts that updateAccount is called on: those created by calls.
EditedAccountIds == AccountIdArgs \ SeedAccountIds
\* Accounts that transactions name: the seeded checking and savings
\* accounts, and an id that names none.
PostingAccountIds == {1, 2, NoSuchId}
CategoryIdArgs == {NoSuchId} \cup NewIds
TransactionIdArgs == {NoSuchId} \cup NewIds
GlossaryIdArgs == {NoSuchId} \cup NewIds

AccountInputs ==
  {[name |-> "Test Account", type |-> "checking", balance |-> Dec(10000),
    isDefault |-> FALSE]}
AccountPartials == {[balance |-> Dec(500)], [name |-> "Renamed Account"]}

\* InsertCategory omits id, but a value that carries one (a Category read
\* from the store, say) is assignable to it and to Partial<InsertCategory>.
CategoryInputs ==
  {[name |-> "Travel", type |-> "expense", color |-> "#000000", icon |-> "home",
    isDefault |-> FALSE],
   [name |-> "Travel", type |-> "expense", color |-> "#000000", icon |-> "home",
    isDefault |-> FALSE, id |-> FirstCategoryId]}
CategoryPartials == {[name |-> "Trips"], [name |-> "Trips", id |-> FirstCategoryId]}

GlossaryInputs == {[term |-> "Asset", definition |-> "Something owned that has value."]}
GlossaryPartials == {[term |-> "Yield"]}

Amounts == {Dec(2500), Dec(12801)}
Types == {"income", "expense"}
Dates == {20240101}

Restrict(f, S) == [x \in S |-> f[x]]

(***************************************************************************)
(* Account methods.                                                        *)
(***************************************************************************)
GetAccounts ==
  /\ Ready
  /\ old' = Snapshot
  /\ UNCHANGED running
  /\ ret' = Return("getAccounts", <<>>, MapValues(accounts))
  /\ UNCHANGED <<store, nextId, openingBalance, issued>>

GetAccount(id) ==
  /\ Ready
  /\ old' = Snapshot
  /\ UNCHANGED running
  /\ ret' = Return("getAccount", <<id>>, MapGet(accounts, id))
  /\ UNCHANGED <<store, nextId, openingBalance, issued>>

CreateAccount(insertAccount) ==
  /\ Ready
  /\ old' = Snapshot
  /\ UNCHANGED running
  /\ CanCreate
  /\ LET account == Merge(insertAccount, [id |-> nextId])
     IN /\ accounts' = MapSet(accounts, nextId, account)
        /\ ret' = Return("createAccount", <<insertAccount>>, account)
        /\ openingBalance' = MapSet(openingBalance, nextId, account.balance)
  /\ issued' = [issued EXCEPT !.accounts = @ \cup DOMAIN accounts']
  /\ nextId' = nextId + 1
  /\ UNCHANGED <<categories, transactions, glossaryTerms>>

\* A variant of updateAccount that stores the fields it is given under an id
\* it does not find.  C10 is tested against it.
UpsertAccountIn(accts, id, updateAccount) ==
  MapSet(accts, id,
         IF id \in DOMAIN accts
         THEN Merge(accts[id], updateAccount)
         ELSE Merge([id |-> id], updateAccount))

\* The accounts map after updateAccount(id, updateAccount).
\* updateAccount merging the partial into every stored account.
UpdateAccountInEveryAccount(accts, id, updateAccount) ==
  IF id \in DOMAIN accts
  THEN [a \in DOMAIN accts |-> Merge(accts[a], updateAccount)]
  ELSE accts

UpdateAccountIn(accts, id, updateAccount) ==
  IF id \in DOMAIN accts
  THEN MapSet(accts, id, Merge(accts[id], updateAccount))
  ELSE accts

UpdateAccount(id, updateAccount) ==
  /\ Ready
  /\ old' = Snapshot
  /\ UNCHANGED running
  /\ accounts' = UpdateAccountIn(accounts, id, updateAccount)
  /\ ret' = Return("updateAccount", <<id, updateAccount>>, MapGet(accounts', id))
  /\ UNCHANGED <<categories, transactions, glossaryTerms, nextId, openingBalance, issued>>

\* deleteAccount as the client's confirmation text has it: the transactions
\* of the account go with it.
DeleteAccountCascading(id) ==
  /\ Ready
  /\ old' = Snapshot
  /\ UNCHANGED running
  /\ accounts' = MapDelete(accounts, id)
  /\ transactions' =
       [i \in {j \in DOMAIN transactions : transactions[j].accountId # id}
          |-> transactions[i]]
  /\ ret' = Return("deleteAccount", <<id>>, id \in DOMAIN accounts)
  /\ UNCHANGED <<categories, glossaryTerms, nextId, openingBalance, issued>>

DeleteAccount(id) ==
  /\ Ready
  /\ old' = Snapshot
  /\ UNCHANGED running
  /\ accounts' = MapDelete(accounts, id)
  /\ ret' = Return("deleteAccount", <<id>>, id \in DOMAIN accounts)
  /\ UNCHANGED <<categories, transactions, glossaryTerms, nextId, openingBalance, issued>>

(***************************************************************************)
(* Category methods.                                                       *)
(***************************************************************************)
GetCategories ==
  /\ Ready
  /\ old' = Snapshot
  /\ UNCHANGED running
  /\ ret' = Return("getCategories", <<>>, MapValues(categories))
  /\ UNCHANGED <<store, nextId, openingBalance, issued>>

GetCategory(id) ==
  /\ Ready
  /\ old' = Snapshot
  /\ UNCHANGED running
  /\ ret' = Return("getCategory", <<id>>, MapGet(categories, id))
  /\ UNCHANGED <<store, nextId, openingBalance, issued>>

CreateCategory(insertCategory) ==
  /\ Ready
  /\ old' = Snapshot
  /\ UNCHANGED running
  /\ CanCreate
  /\ LET category == Merge(insertCategory, [id |-> nextId])
     IN /\ categories' = MapSet(categories, nextId, category)
        /\ ret' = Return("createCategory", <<insertCategory>>, category)
  /\ nextId' = nextId + 1
  /\ issued' = [issued EXCEPT !.categories = @ \cup DOMAIN categories']
  /\ UNCHANGED <<accounts, transactions, glossaryTerms, openingBalance>>

UpdateCategory(id, updateCategory) ==
  /\ Ready
  /\ old' = Snapshot
  /\ UNCHANGED running
  /\ categories' =
       IF id \in DOMAIN categories
       THEN MapSet(categories, id, Merge(categories[id], updateCategory))
       ELSE categories
  /\ ret' = Return("updateCategory", <<id, updateCategory>>, MapGet(categories', id))
  /\ UNCHANGED <<accounts, transactions, glossaryTerms, nextId, openingBalance, issued>>

DeleteCategory(id) ==
  /\ Ready
  /\ old' = Snapshot
  /\ UNCHANGED running
  /\ categories' = MapDelete(categories, id)
  /\ ret' = Return("deleteCategory", <<id>>, id \in DOMAIN categories)
  /\ UNCHANGED <<accounts, transactions, glossaryTerms, nextId, openingBalance, issued>>

(***************************************************************************)
(* Transaction methods and the balance adjustment.                         *)
(***************************************************************************)
RECURSIVE InsertByDate(_, _)
\* s with t put after every entry the comparator does not order after it:
\* the comparator new Date(b.date) - new Date(a.date) puts later dates first.
InsertByDate(s, t) ==
  IF s = <<>> THEN <<t>>
  ELSE IF Head(s).date >= t.date THEN <<Head(s)>> \o InsertByDate(Tail(s), t)
  ELSE <<t>> \o s

\* getTransactions without the sort: the Map's insertion order.
SortByDateSkipped(s) == s

RECURSIVE SortByDate(_)
\* Array.prototype.sort with that comparator; the sort is stable.
SortByDate(s) ==
  IF s = <<>> THEN <<>>
  ELSE InsertByDate(SortByDate(SubSeq(s, 1, Len(s) - 1)), s[Len(s)])

GetTransactions ==
  /\ Ready
  /\ old' = Snapshot
  /\ UNCHANGED running
  /\ ret' = Return("getTransactions", <<>>, SortByDate(MapValues(transactions)))
  /\ UNCHANGED <<store, nextId, openingBalance, issued>>

GetTransaction(id) ==
  /\ Ready
  /\ old' = Snapshot
  /\ UNCHANGED running
  /\ ret' = Return("getTransaction", <<id>>, MapGet(transactions, id))
  /\ UNCHANGED <<store, nextId, openingBalance, issued>>

\* The empty string "" where an id is expected, and where an amount is.
EmptyId == -1
EmptyAmount == [empty |-> TRUE]

\* p.f || b: b when the field f of p is absent or is the empty string.
OrElse(p, f, empty, b) == IF f \in DOMAIN p /\ p[f] # empty THEN p[f] ELSE b

\* createTransaction's new balance of the account the transaction names.
PostedBalance(account, insertTransaction) ==
  LET currentBalance == ParseFloat(account.balance)
      transactionAmount == ParseFloat(insertTransaction.amount)
      newBalance == IF insertTransaction.type = "income"
                    THEN NumAdd(currentBalance, transactionAmount)
                    ELSE NumSub(currentBalance, transactionAmount)
  IN NumberToString(newBalance)

\* A variant of createTransaction that posts to the default account when
\* the account the transaction names is not stored.  C8 is tested against it.
CreateTransactionInDefaulting(accts, txs, id, insertTransaction) ==
  LET transaction == Merge(insertTransaction, [id |-> id, createdAt |-> id])
      named == insertTransaction.accountId
      posted == IF named \in DOMAIN accts
                THEN {named}
                ELSE {a \in DOMAIN accts : accts[a].isDefault}
  IN [transactions |-> MapSet(txs, id, transaction),
      accounts |->
        [a \in DOMAIN accts |->
           IF a \in posted
           THEN Merge(accts[a],
                      [balance |-> PostedBalance(accts[a], insertTransaction)])
           ELSE accts[a]],
      result |-> transaction]

\* createTransaction posting the amount only when the transaction names a
\* stored category of its own type.
CreateTransactionInCheckingCategory(accts, txs, id, insertTransaction) ==
  LET transaction == Merge(insertTransaction, [id |-> id, createdAt |-> id])
      account == MapGet(accts, insertTransaction.accountId)
      category == MapGet(categories, insertTransaction.categoryId)
  IN [transactions |-> MapSet(txs, id, transaction),
      accounts |->
        IF /\ account # Undefined
           /\ category # Undefined
           /\ category.type = insertTransaction.type
        THEN UpdateAccountIn(accts, insertTransaction.accountId,
                             [balance |-> PostedBalance(account, insertTransaction)])
        ELSE accts,
      result |-> transaction]

\* The stores after createTransaction(insertTransaction) with the id and
\* the creation time the call draws.
CreateTransactionIn(accts, txs, id, insertTransaction) ==
  LET transaction == Merge(insertTransaction, [id |-> id, createdAt |-> id])
      stored == MapSet(txs, id, transaction)
      account == MapGet(accts, insertTransaction.accountId)
  IN [transactions |-> stored,
      accounts |->
        IF account # Undefined
        THEN UpdateAccountIn(accts, insertTransaction.accountId,
                             [balance |-> PostedBalance(account, insertTransaction)])
        ELSE accts,
      result |-> transaction]

CreateTransaction(insertTransaction) ==
  /\ Ready
  /\ old' = Snapshot
  /\ UNCHANGED running
  /\ CanCreate
  /\ LET after == CreateTransactionIn(accounts, transactions, nextId, insertTransaction)
     IN /\ transactions' = after.transactions
        /\ accounts' = after.accounts
        /\ ret' = Return("createTransaction", <<insertTransaction>>, after.result)
  /\ nextId' = nextId + 1
  /\ issued' = [issued EXCEPT !.transactions = @ \cup DOMAIN transactions']
  /\ UNCHANGED <<categories, glossaryTerms, openingBalance>>

\* updateTransaction's revert of the old amount.
RevertedBalance(account, transaction) ==
  LET currentBalance == ParseFloat(account.balance)
      oldAmount == ParseFloat(transaction.amount)
      revertedBalance == IF transaction.type = "income"
                         THEN NumSub(currentBalance, oldAmount)
                         ELSE NumAdd(currentBalance, oldAmount)
  IN NumberToString(revertedBalance)

\* updateTransaction's new balance of the target account.
AppliedBalance(targetAccount, transaction, updateTransaction) ==
  LET currentBalance == ParseFloat(targetAccount.balance)
      newAmount == ParseFloat(OrElse(updateTransaction, "amount", EmptyAmount,
                                     transaction.amount))
      newType == OrElse(updateTransaction, "type", "", transaction.type)
      newBalance == IF newType = "income"
                    THEN NumAdd(currentBalance, newAmount)
                    ELSE NumSub(currentBalance, newAmount)
  IN NumberToString(newBalance)

\* updateTransaction up to its first await: the accounts map once the old
\* amount of transaction is reverted.
\* updateTransaction without lines 236-245: the old amount stays posted.
UpdateTransactionRevertInSkipped(accts, transaction) == accts

UpdateTransactionRevertIn(accts, transaction) ==
  LET account == MapGet(accts, transaction.accountId)
  IN IF account # Undefined
     THEN UpdateAccountIn(accts, transaction.accountId,
                          [balance |-> RevertedBalance(account, transaction)])
     ELSE accts

\* The account updateTransaction applies the new amount to.
TargetAccountId(transaction, updateTransaction) ==
  OrElse(updateTransaction, "accountId", EmptyId, transaction.accountId)

\* updateTransaction from its first await on: the stores once the merged
\* record is set and the new amount applied.  transaction is the record the
\* call read when it started.
UpdateTransactionApplyIn(accts, txs, transaction, id, updateTransaction) ==
  LET updatedTransaction == Merge(transaction, updateTransaction)
      targetAccountId == TargetAccountId(transaction, updateTransaction)
      targetAccount == MapGet(accts, targetAccountId)
  IN [transactions |-> MapSet(txs, id, updatedTransaction),
      accounts |->
        IF targetAccount # Undefined
        THEN UpdateAccountIn(accts, targetAccountId,
               [balance |-> AppliedBalance(targetAccount, transaction, updateTransaction)])
        ELSE accts,
      result |-> updatedTransaction]

\* The stores after updateTransaction(id, updateTransaction) on a stored id.
UpdateTransactionIn(accts, txs, id, updateTransaction) ==
  UpdateTransactionApplyIn(UpdateTransactionRevertIn(accts, txs[id]), txs, txs[id],
                           id, updateTransaction)

UpdateTransaction(id, updateTransaction) ==
  /\ Ready
  /\ old' = Snapshot
  /\ UNCHANGED running
  /\ IF id \in DOMAIN transactions
     THEN LET after == UpdateTransactionIn(accounts, transactions, id, updateTransaction)
          IN /\ transactions' = after.transactions
             /\ accounts' = after.accounts
             /\ ret' = Return("updateTransaction", <<id, updateTransaction>>, after.result)
     ELSE /\ ret' = Return("updateTransaction", <<id, updateTransaction>>, Undefined)
          /\ UNCHANGED <<accounts, transactions>>
  /\ UNCHANGED <<categories, glossaryTerms, nextId, openingBalance, issued>>

\* deleteTransaction's revert of the amount.
DeletedBalance(account, transaction) ==
  LET currentBalance == ParseFloat(account.balance)
      transactionAmount == ParseFloat(transaction.amount)
      newBalance == IF transaction.type = "income"
                    THEN NumSub(currentBalance, transactionAmount)
                    ELSE NumAdd(currentBalance, transactionAmount)
  IN NumberToString(newBalance)

\* A variant of deleteTransaction that refuses a transaction whose account
\* is not stored.  C9 is tested against it.
DeleteTransactionInRequiringAccount(accts, txs, id) ==
  LET transaction == txs[id]
      account == MapGet(accts, transaction.accountId)
  IN IF account # Undefined
     THEN [transactions |-> MapDelete(txs, id),
           accounts |-> UpdateAccountIn(accts, transaction.accountId,
                          [balance |-> DeletedBalance(account, transaction)]),
           result |-> TRUE]
     ELSE [transactions |-> txs, accounts |-> accts, result |-> FALSE]

\* A variant of deleteTransaction that reverts the amount and returns true
\* but leaves the record stored.  C11 is tested against it.
DeleteTransactionInKeepingRecord(accts, txs, id) ==
  LET transaction == txs[id]
      account == MapGet(accts, transaction.accountId)
  IN [transactions |-> txs,
      accounts |->
        IF account # Undefined
        THEN UpdateAccountIn(accts, transaction.accountId,
                             [balance |-> DeletedBalance(account, transaction)])
        ELSE accts,
      result |-> TRUE]

\* deleteTransaction up to its await: the accounts map once the amount of
\* transaction is reverted.
\* deleteTransaction reverting the amount on every stored account.
DeleteTransactionRevertInEveryAccount(accts, transaction) ==
  [a \in DOMAIN accts |->
     Merge(accts[a], [balance |-> RevertedBalance(accts[a], transaction)])]

\* deleteTransaction without lines 272-281: the amount stays posted.
DeleteTransactionRevertInSkipped(accts, transaction) == accts

DeleteTransactionRevertIn(accts, transaction) ==
  LET account == MapGet(accts, transaction.accountId)
  IN IF account # Undefined
     THEN UpdateAccountIn(accts, transaction.accountId,
                          [balance |-> DeletedBalance(account, transaction)])
     ELSE accts

\* The stores after deleteTransaction(id) on a stored id.
DeleteTransactionIn(accts, txs, id) ==
  [transactions |-> MapDelete(txs, id),
   accounts |-> DeleteTransactionRevertIn(accts, txs[id]),
   result |-> id \in DOMAIN txs]

DeleteTransaction(id) ==
  /\ Ready
  /\ old' = Snapshot
  /\ UNCHANGED running
  /\ IF id \in DOMAIN transactions
     THEN LET after == DeleteTransactionIn(accounts, transactions, id)
          IN /\ transactions' = after.transactions
             /\ accounts' = after.accounts
             /\ ret' = Return("deleteTransaction", <<id>>, after.result)
     ELSE /\ ret' = Return("deleteTransaction", <<id>>, FALSE)
          /\ UNCHANGED <<accounts, transactions>>
  /\ UNCHANGED <<categories, glossaryTerms, nextId, openingBalance, issued>>

(***************************************************************************)
(* Glossary methods.                                                       *)
(***************************************************************************)
\* The terms of the model in the order of String.prototype.localeCompare.
Collation ==
  <<"Annual Percentage Rate (APR)", "Asset", "Budget", "Cash Flow",
    "Compound Interest", "Credit Score", "Debt-to-Income Ratio",
    "Diversification", "Emergency Fund", "Liquidity", "Net Worth", "Yield">>

CollationRank(term) == CHOOSE i \in 1..Len(Collation) : Collation[i] = term

RECURSIVE InsertByTerm(_, _)
InsertByTerm(s, t) ==
  IF s = <<>> THEN <<t>>
  ELSE IF CollationRank(Head(s).term) <= CollationRank(t.term)
       THEN <<Head(s)>> \o InsertByTerm(Tail(s), t)
  ELSE <<t>> \o s

RECURSIVE SortByTerm(_)
SortByTerm(s) ==
  IF s = <<>> THEN <<>>
  ELSE InsertByTerm(SortByTerm(SubSeq(s, 1, Len(s) - 1)), s[Len(s)])

GetGlossaryTerms ==
  /\ Ready
  /\ old' = Snapshot
  /\ UNCHANGED running
  /\ ret' = Return("getGlossaryTerms", <<>>, SortByTerm(MapValues(glossaryTerms)))
  /\ UNCHANGED <<store, nextId, openingBalance, issued>>

GetGlossaryTerm(id) ==
  /\ Ready
  /\ old' = Snapshot
  /\ UNCHANGED running
  /\ ret' = Return("getGlossaryTerm", <<id>>, MapGet(glossaryTerms, id))
  /\ UNCHANGED <<store, nextId, openingBalance, issued>>

CreateGlossaryTerm(insertTerm) ==
  /\ Ready
  /\ old' = Snapshot
  /\ UNCHANGED running
  /\ CanCreate
  /\ LET term == Merge(insertTerm, [id |-> nextId])
     IN /\ glossaryTerms' = MapSet(glossaryTerms, nextId, term)
        /\ ret' = Return("createGlossaryTerm", <<insertTerm>>, term)
  /\ nextId' = nextId + 1
  /\ issued' = [issued EXCEPT !.glossaryTerms = @ \cup DOMAIN glossaryTerms']
  /\ UNCHANGED <<accounts, categories, transactions, openingBalance>>

UpdateGlossaryTerm(id, updateTerm) ==
  /\ Ready
  /\ old' = Snapshot
  /\ UNCHANGED running
  /\ glossaryTerms' =
       IF id \in DOMAIN glossaryTerms
       THEN MapSet(glossaryTerms, id, Merge(glossaryTerms[id], updateTerm))
       ELSE glossaryTerms
  /\ ret' = Return("updateGlossaryTerm", <<id, updateTerm>>, MapGet(glossaryTerms', id))
  /\ UNCHANGED <<accounts, categories, transactions, nextId, openingBalance, issued>>

DeleteGlossaryTerm(id) ==
  /\ Ready
  /\ old' = Snapshot
  /\ UNCHANGED running
  /\ glossaryTerms' = MapDelete(glossaryTerms, id)
  /\ ret' = Return("deleteGlossaryTerm", <<id>>, id \in DOMAIN glossaryTerms)
  /\ UNCHANGED <<accounts, categories, transactions, nextId, openingBalance, issued>>

(***************************************************************************)
(* Calls run one at a time, each to completion: a call is made only when   *)
(* the value of the one before it has been taken.                          *)
(***************************************************************************)
TransactionInputs ==
  [amount : Amounts, description : {"Groceries"}, type : Types,
   categoryId : {5}, accountId : PostingAccountIds, date : Dates]

TransactionPartials ==
  {Restrict(p, S) :
     p \in [amount : Amounts, type : Types, accountId : PostingAccountIds],
     S \in {{}, {"amount"}, {"type"}, {"accountId"}, {"amount", "type"}}}

\* The caller that awaited the call takes the value it returned.
TakeResult ==
  /\ ~Ready
  /\ ret' = NoCall
  /\ old' = Snapshot
  /\ UNCHANGED running
  /\ UNCHANGED <<store, nextId, openingBalance, issued>>

Next ==
  \/ GetAccounts
  \/ \E id \in AccountIdArgs : GetAccount(id)
  \/ \E insertAccount \in AccountInputs : CreateAccount(insertAccount)
  \/ \E id \in EditedAccountIds, p \in AccountPartials : UpdateAccount(id, p)
  \/ \E id \in AccountIdArgs : DeleteAccount(id)
  \/ GetCategories
  \/ \E id \in CategoryIdArgs : GetCategory(id)
  \/ \E insertCategory \in CategoryInputs : CreateCategory(insertCategory)
  \/ \E id \in CategoryIdArgs, p \in CategoryPartials : UpdateCategory(id, p)
  \/ \E id \in CategoryIdArgs : DeleteCategory(id)
  \/ GetTransactions
  \/ \E id \in TransactionIdArgs : GetTransaction(id)
  \/ \E t \in TransactionInputs : CreateTransaction(t)
  \/ \E id \in TransactionIdArgs, p \in TransactionPartials : UpdateTransaction(id, p)
  \/ \E id \in TransactionIdArgs : DeleteTransaction(id)
  \/ GetGlossaryTerms
  \/ \E id \in GlossaryIdArgs : GetGlossaryTerm(id)
  \/ \E insertTerm \in GlossaryInputs : CreateGlossaryTerm(insertTerm)
  \/ \E id \in GlossaryIdArgs, p \in GlossaryPartials : UpdateGlossaryTerm(id, p)
  \/ \E id \in GlossaryIdArgs : DeleteGlossaryTerm(id)
  \/ TakeResult

Spec == Init /\ [][Next]_vars

(***************************************************************************)
(* Transaction calls only, each on stored accounts.                        *)
(***************************************************************************)
LiveTransactionInputs ==
  {t \in TransactionInputs : t.accountId \in DOMAIN accounts}

LiveTransactionPartials ==
  {p \in TransactionPartials :
     "accountId" \in DOMAIN p => p.accountId \in DOMAIN accounts}

NextTransactions ==
  \/ \E t \in LiveTransactionInputs : CreateTransaction(t)
  \/ \E id \in TransactionIdArgs, p \in LiveTransactionPartials : UpdateTransaction(id, p)
  \/ \E id \in TransactionIdArgs : DeleteTransaction(id)
  \/ TakeResult

SpecTransactions == Init /\ [][NextTransactions]_vars

(***************************************************************************)
(* createTransaction directly followed by deleteTransaction of the record  *)
(* it returned; the caller may read in between.                            *)
(***************************************************************************)
NextCreateDelete ==
  \/ \E t \in LiveTransactionInputs : CreateTransaction(t)
  \/ \E id \in DOMAIN transactions : DeleteTransaction(id)
  \/ \E id \in PostingAccountIds : GetAccount(id)
  \/ GetAccounts
  \/ GetTransactions
  \/ \E id \in TransactionIdArgs : GetTransaction(id)
  \/ TakeResult

SpecCreateDelete == Init /\ [][NextCreateDelete]_vars

(***************************************************************************)
(* Decimal arithmetic: the value a decimal(12,2) column holds, in          *)
(* hundredths, and the sums the balance of an account is compared with.    *)
(***************************************************************************)
IsDecimal(s) == "cents" \in DOMAIN s

\* +amount of an income, -amount of an expense, in hundredths.
SignedCents(t) == IF t.type = "income" THEN t.amount.cents ELSE -t.amount.cents

RECURSIVE SumSignedCents(_, _)
SumSignedCents(txs, ids) ==
  IF ids = {} THEN 0
  ELSE LET i == CHOOSE x \in ids : TRUE
       IN SignedCents(txs[i]) + SumSignedCents(txs, ids \ {i})

\* The signed sum of the transactions of txs posted against account a.
PostedCents(txs, a) ==
  SumSignedCents(txs, {i \in DOMAIN txs : txs[i].accountId = a})

\* Account a holds its opening balance plus the signed sum of its transactions.
Consistent(a) ==
  accounts[a].balance = Dec(openingBalance[a].cents + PostedCents(transactions, a))

\* C1: after any sequence of createTransaction, updateTransaction and
\* deleteTransaction calls on stored accounts, each run to completion, the
\* balance of every account is the balance it started with plus the amounts
\* of the stored income transactions that name it, less the amounts of the
\* stored expense transactions that name it.
C1_BalanceConsistency == \A a \in DOMAIN accounts : Consistent(a)

\* C2: between operations, whatever calls came before (updateAccount with a
\* balance and deleteAccount among them), every stored account's balance is
\* its balance at creation plus the signed sum of the transactions posted
\* against it.
C2_BalanceInvariant == Ready => \A a \in DOMAIN accounts : Consistent(a)

\* C3: createTransaction(t) with t.accountId naming a stored account changes
\* that account's balance by exactly +t.amount for an income and exactly
\* -t.amount for an expense, and the new record is stored and returned.
C3_CreatePostsAmount ==
  (/\ ret.op = "createTransaction"
   /\ ret.args[1].accountId \in DOMAIN old.accounts
   /\ IsDecimal(old.accounts[ret.args[1].accountId].balance))
  => LET t == ret.args[1]
         a == t.accountId
     IN /\ a \in DOMAIN accounts
        /\ accounts[a].balance = Dec(old.accounts[a].balance.cents + SignedCents(t))
        /\ ret.value.id \notin DOMAIN old.transactions
        /\ MapGet(transactions, ret.value.id) = ret.value
        /\ \A f \in DOMAIN t : ret.value[f] = t[f]

\* C4: updateTransaction(id, p) on a stored transaction whose account is
\* stored and is not changed by p changes that account's balance by exactly
\* the signed amount of the transaction after the update less its signed
\* amount before the update, whatever of amount and type p changes.
C4_UpdatePostsDifference ==
  (/\ ret.op = "updateTransaction"
   /\ ret.args[1] \in DOMAIN old.transactions
   /\ old.transactions[ret.args[1]].accountId \in DOMAIN old.accounts
   /\ \/ "accountId" \notin DOMAIN ret.args[2]
      \/ ret.args[2].accountId = old.transactions[ret.args[1]].accountId
   /\ IsDecimal(old.accounts[old.transactions[ret.args[1]].accountId].balance))
  => LET id == ret.args[1]
         before == old.transactions[id]
         a == before.accountId
     IN /\ id \in DOMAIN transactions
        /\ accounts[a].balance =
             Dec(old.accounts[a].balance.cents
                 + SignedCents(transactions[id]) - SignedCents(before))

\* C5: for a stored transaction T posted on a stored account X that nothing
\* else has touched, updateTransaction(T.id, {accountId: Y}) with Y another
\* stored account restores X's balance to the value it had before T was
\* posted and changes Y's balance by T's signed amount.
C5_ReassignMovesAmount ==
  (/\ ret.op = "updateTransaction"
   /\ ret.args[1] \in DOMAIN old.transactions
   /\ DOMAIN ret.args[2] = {"accountId"}
   /\ ret.args[2].accountId \in DOMAIN old.accounts
   /\ ret.args[2].accountId # old.transactions[ret.args[1]].accountId
   /\ old.transactions[ret.args[1]].accountId \in DOMAIN old.accounts
   /\ LET T == old.transactions[ret.args[1]]
      IN old.accounts[T.accountId].balance =
           Dec(openingBalance[T.accountId].cents + SignedCents(T))
   /\ IsDecimal(old.accounts[ret.args[2].accountId].balance))
  => LET T == old.transactions[ret.args[1]]
         X == T.accountId
         Y == ret.args[2].accountId
     IN /\ accounts[X].balance = openingBalance[X]
        /\ accounts[Y].balance = Dec(old.accounts[Y].balance.cents + SignedCents(T))

\* C6: deleteTransaction(id) on a stored transaction whose account is stored
\* takes from the balance the signed amount the transaction has when it is
\* deleted (the updated amount and type, if it was updated), removes the
\* record, and returns true.
C6_DeleteReverts ==
  (/\ ret.op = "deleteTransaction"
   /\ ret.args[1] \in DOMAIN old.transactions
   /\ old.transactions[ret.args[1]].accountId \in DOMAIN old.accounts
   /\ IsDecimal(old.accounts[old.transactions[ret.args[1]].accountId].balance))
  => LET id == ret.args[1]
         T == old.transactions[id]
         a == T.accountId
     IN /\ accounts[a].balance = Dec(old.accounts[a].balance.cents - SignedCents(T))
        /\ id \notin DOMAIN transactions
        /\ ret.value = TRUE

\* C7: createTransaction on an account directly followed by deleteTransaction
\* of the created transaction leaves the account's stored balance exactly
\* the balance it had before the create, for every amount and type.
C7_RoundTrip ==
  (ret.op = "deleteTransaction" /\ ret.value = TRUE)
  => \A a \in DOMAIN accounts : accounts[a].balance = openingBalance[a]

\* Every stored account holds the balance it held when the call was made.
BalancesUnchanged ==
  /\ DOMAIN accounts = DOMAIN old.accounts
  /\ \A a \in DOMAIN accounts : accounts[a].balance = old.accounts[a].balance

\* {...T, ...p}: the fields of T, with those p gives in place of T's.
Merged(T, p) ==
  [f \in DOMAIN T \cup DOMAIN p |-> IF f \in DOMAIN p THEN p[f] ELSE T[f]]

\* C8: createTransaction(t) with t.accountId naming no stored account
\* returns a transaction record and stores it, so that getTransaction of
\* the returned id yields it and getTransactions lists it, and leaves the
\* balance of every stored account unchanged.
C8_MissingAccountCreate ==
  (/\ ret.op = "createTransaction"
   /\ ret.args[1].accountId \notin DOMAIN old.accounts)
  => /\ "id" \in DOMAIN ret.value
     /\ \A f \in DOMAIN ret.args[1] : ret.value[f] = ret.args[1][f]
     /\ ret.value.id \notin DOMAIN old.transactions
     /\ MapGet(transactions, ret.value.id) = ret.value
     /\ LET listed == SortByDate(MapValues(transactions))
        IN \E i \in DOMAIN listed : listed[i] = ret.value
     /\ BalancesUnchanged

\* A createTransaction that named no stored account has returned.
C8_Witness ==
  /\ ret.op = "createTransaction"
  /\ ret.args[1].accountId \notin DOMAIN old.accounts
  /\ ret.value.id \in DOMAIN transactions

\* C9: for a stored transaction whose accountId names no stored account,
\* updateTransaction with a partial that does not change accountId returns
\* the merged record, deleteTransaction returns true and removes the
\* record, and in both cases no stored account's balance changes.
C9_MissingAccountUpdateDelete ==
  /\ (/\ ret.op = "updateTransaction"
      /\ ret.args[1] \in DOMAIN old.transactions
      /\ old.transactions[ret.args[1]].accountId \notin DOMAIN old.accounts
      /\ \/ "accountId" \notin DOMAIN ret.args[2]
         \/ ret.args[2].accountId = old.transactions[ret.args[1]].accountId)
     => /\ ret.value = Merged(old.transactions[ret.args[1]], ret.args[2])
        /\ MapGet(transactions, ret.args[1]) = ret.value
        /\ BalancesUnchanged
  /\ (/\ ret.op = "deleteTransaction"
      /\ ret.args[1] \in DOMAIN old.transactions
      /\ old.transactions[ret.args[1]].accountId \notin DOMAIN old.accounts)
     => /\ ret.value = TRUE
        /\ ret.args[1] \notin DOMAIN transactions
        /\ BalancesUnchanged

\* An updateTransaction that changes the amount of a transaction posted on
\* an account that was deleted afterwards has returned.
C9_Witness ==
  /\ ret.op = "updateTransaction"
  /\ ret.args[1] \in DOMAIN old.transactions
  /\ old.transactions[ret.args[1]].accountId \in SeedAccountIds \ DOMAIN old.accounts
  /\ "accountId" \notin DOMAIN ret.args[2]
  /\ "amount" \in DOMAIN ret.args[2]
  /\ ret.args[2].amount # old.transactions[ret.args[1]].amount
  /\ ret.value.amount = ret.args[2].amount

\* The map each update method writes.
UpdatedMap ==
  [updateAccount |-> "accounts", updateCategory |-> "categories",
   updateTransaction |-> "transactions", updateGlossaryTerm |-> "glossaryTerms"]

\* C10: for each of the four entity types, update with an id that is not
\* stored returns undefined and leaves the whole store unchanged:
\* updateTransaction with an unknown id changes no account balance and
\* creates no transaction record.
C10_NotFoundUpdate ==
  (/\ ret.op \in DOMAIN UpdatedMap
   /\ ret.args[1] \notin DOMAIN old[UpdatedMap[ret.op]])
  => /\ ret.value = Undefined
     /\ Snapshot = old

\* An updateTransaction with an id that is not stored has returned, while
\* a transaction is stored on a stored account.
C10_Witness ==
  /\ ret.op = "updateTransaction"
  /\ ret.args[1] \notin DOMAIN old.transactions
  /\ ret.value = Undefined
  /\ \E i \in DOMAIN transactions : transactions[i].accountId \in DOMAIN accounts

\* The map each delete method writes.
DeletedMap ==
  [deleteAccount |-> "accounts", deleteCategory |-> "categories",
   deleteTransaction |-> "transactions", deleteGlossaryTerm |-> "glossaryTerms"]

\* C11: delete(id) returns true exactly when a record with that id was
\* stored when the call was made, and the call removes that record and no
\* other; it returns false otherwise, with the whole store (every account
\* balance included) unchanged; a second delete of an id returns false.
C11_DeleteReturn ==
  ret.op \in DOMAIN DeletedMap
  => LET m == DeletedMap[ret.op]
         id == ret.args[1]
     IN /\ ret.value = (id \in DOMAIN old[m])
        /\ ret.value = TRUE => Snapshot[m] = MapDelete(old[m], id)
        /\ ret.value = FALSE => Snapshot = old
        /\ id \in issued[m] \ DOMAIN old[m] => ret.value = FALSE

\* A deleteTransaction of a transaction that an earlier call deleted has
\* returned false.
C11_Witness ==
  /\ ret.op = "deleteTransaction"
  /\ ret.args[1] \in issued.transactions
  /\ ret.args[1] \notin DOMAIN old.transactions
  /\ ret.value = FALSE

(***************************************************************************)
(* Calls started without awaiting the ones in flight.  An async method     *)
(* runs without interruption from its call to its first await and from one *)
(* await to the next.  this.updateAccount holds no await: the balance is   *)
(* written before the await on its promise suspends the method that called *)
(* it.  The callers start from a store on which two transactions have been *)
(* posted, one call after the other.                                       *)
(***************************************************************************)
PriorTransactions ==
  <<[amount |-> Dec(12801), description |-> "Salary", type |-> "income",
     categoryId |-> 5, accountId |-> 1, date |-> 20240101],
    [amount |-> Dec(2500), description |-> "Groceries", type |-> "expense",
     categoryId |-> 5, accountId |-> 1, date |-> 20240101]>>

RECURSIVE PostedPrior(_)
\* The stores after createTransaction of the first n prior transactions.
PostedPrior(n) ==
  IF n = 0
  THEN [transactions |-> NoTransactions, accounts |-> SeededAccounts]
  ELSE LET before == PostedPrior(n - 1)
       IN CreateTransactionIn(before.accounts, before.transactions,
                              FirstNewId + n - 1, PriorTransactions[n])

InitConcurrent ==
  /\ accounts = PostedPrior(Len(PriorTransactions)).accounts
  /\ transactions = PostedPrior(Len(PriorTransactions)).transactions
  /\ categories = SeededCategories
  /\ glossaryTerms = SeededGlossaryTerms
  /\ nextId = FirstNewId + Len(PriorTransactions)
  /\ ret = NoCall
  /\ old = Snapshot
  /\ openingBalance = [i \in SeedAccountIds |-> DefaultAccounts[i].balance]
  /\ issued = [accounts |-> SeedAccountIds, categories |-> SeedCategoryIds,
               transactions |-> DOMAIN transactions,
               glossaryTerms |-> SeedGlossaryIds]
  /\ running = [c \in Callers |-> Idle]

\* createTransaction, from the call to the await at line 225.
StartCreateTransaction(c, insertTransaction) ==
  /\ running[c] = Idle
  /\ LET after == CreateTransactionIn(accounts, transactions, nextId, insertTransaction)
     IN /\ transactions' = after.transactions
        /\ accounts' = after.accounts
        /\ running' =
             [running EXCEPT ![c] =
                Running(IF insertTransaction.accountId \in DOMAIN accounts
                        THEN "await225" ELSE "returned",
                        "createTransaction", <<insertTransaction>>, Undefined,
                        after.result)]
  /\ nextId' = nextId + 1
  /\ issued' = [issued EXCEPT !.transactions = @ \cup DOMAIN transactions']
  /\ UNCHANGED <<categories, glossaryTerms, openingBalance, ret, old>>

\* createTransaction, from the await at line 225 to its return.
ResumeAt225(c) ==
  /\ running[c].pc = "await225"
  /\ running' = [running EXCEPT ![c].pc = "returned"]
  /\ UNCHANGED <<store, nextId, openingBalance, issued, ret, old>>

\* updateTransaction, from the call to its first await.
StartUpdateTransaction(c, id, updateTransaction) ==
  /\ running[c] = Idle
  /\ IF id \notin DOMAIN transactions
     THEN /\ running' =
               [running EXCEPT ![c] =
                  Running("returned", "updateTransaction", <<id, updateTransaction>>,
                          Undefined, Undefined)]
          /\ UNCHANGED <<accounts, transactions>>
     ELSE LET transaction == transactions[id]
              after == UpdateTransactionApplyIn(accounts, transactions, transaction,
                                                id, updateTransaction)
          IN IF transaction.accountId \in DOMAIN accounts
             THEN /\ accounts' = UpdateTransactionRevertIn(accounts, transaction)
                  /\ UNCHANGED transactions
                  /\ running' =
                       [running EXCEPT ![c] =
                          Running("await244", "updateTransaction",
                                  <<id, updateTransaction>>, transaction, Undefined)]
             ELSE /\ accounts' = after.accounts
                  /\ transactions' = after.transactions
                  /\ running' =
                       [running EXCEPT ![c] =
                          Running(IF TargetAccountId(transaction, updateTransaction)
                                       \in DOMAIN accounts
                                  THEN "await261" ELSE "returned",
                                  "updateTransaction", <<id, updateTransaction>>,
                                  transaction, after.result)]
  /\ UNCHANGED <<categories, glossaryTerms, nextId, openingBalance, issued, ret, old>>

\* updateTransaction, from the await at line 244 to the next await.
ResumeAt244(c) ==
  /\ running[c].pc = "await244"
  /\ LET call == running[c]
         after == UpdateTransactionApplyIn(accounts, transactions, call.transaction,
                                           call.args[1], call.args[2])
     IN /\ accounts' = after.accounts
        /\ transactions' = after.transactions
        /\ running' =
             [running EXCEPT ![c] =
                Running(IF TargetAccountId(call.transaction, call.args[2])
                             \in DOMAIN accounts
                        THEN "await261" ELSE "returned",
                        call.op, call.args, call.transaction, after.result)]
  /\ UNCHANGED <<categories, glossaryTerms, nextId, openingBalance, issued, ret, old>>

\* updateTransaction, from the await at line 261 to its return.
ResumeAt261(c) ==
  /\ running[c].pc = "await261"
  /\ running' = [running EXCEPT ![c].pc = "returned"]
  /\ UNCHANGED <<store, nextId, openingBalance, issued, ret, old>>

\* deleteTransaction, from the call to its await.
StartDeleteTransaction(c, id) ==
  /\ running[c] = Idle
  /\ IF id \notin DOMAIN transactions
     THEN /\ running' =
               [running EXCEPT ![c] =
                  Running("returned", "deleteTransaction", <<id>>, Undefined, FALSE)]
          /\ UNCHANGED <<accounts, transactions>>
     ELSE LET transaction == transactions[id]
          IN IF transaction.accountId \in DOMAIN accounts
             THEN /\ accounts' = DeleteTransactionRevertIn(accounts, transaction)
                  /\ UNCHANGED transactions
                  /\ running' =
                       [running EXCEPT ![c] =
                          Running("await280", "deleteTransaction", <<id>>,
                                  transaction, Undefined)]
             ELSE /\ transactions' = MapDelete(transactions, id)
                  /\ UNCHANGED accounts
                  /\ running' =
                       [running EXCEPT ![c] =
                          Running("returned", "deleteTransaction", <<id>>,
                                  transaction, TRUE)]
  /\ UNCHANGED <<categories, glossaryTerms, nextId, openingBalance, issued, ret, old>>

\* deleteTransaction, from the await at line 280 to its return.
ResumeAt280(c) ==
  /\ running[c].pc = "await280"
  /\ transactions' = MapDelete(transactions, running[c].args[1])
  /\ running' =
       [running EXCEPT ![c] =
          Running("returned", @.op, @.args, @.transaction,
                  @.args[1] \in DOMAIN transactions)]
  /\ UNCHANGED <<accounts, categories, glossaryTerms, nextId, openingBalance, issued,
                 ret, old>>

\* What the concurrent callers pass: transactions on the checking account,
\* and the stored transactions.
ConcurrentInputs == {t \in TransactionInputs : t.accountId = 1}

NextConcurrent ==
  \/ \E c \in Callers, t \in ConcurrentInputs : StartCreateTransaction(c, t)
  \/ \E c \in Callers : ResumeAt225(c)
  \/ \E c \in Callers, id \in DOMAIN transactions, p \in LiveTransactionPartials :
       StartUpdateTransaction(c, id, p)
  \/ \E c \in Callers : ResumeAt244(c)
  \/ \E c \in Callers : ResumeAt261(c)
  \/ \E c \in Callers, id \in DOMAIN transactions : StartDeleteTransaction(c, id)
  \/ \E c \in Callers : ResumeAt280(c)

SpecConcurrent == InitConcurrent /\ [][NextConcurrent]_vars

\* The call has started and has a store write to do after the await it is
\* suspended at: transactions.set at line 248, transactions.delete at 283.
WritesPending(call) == call.pc \in {"await244", "await280"}

\* C12: once createTransaction, updateTransaction or deleteTransaction has
\* started, no other storage operation takes a step before it has done its
\* last store write.
C12_NoSuspension ==
  [][\A c \in Callers :
       WritesPending(running[c])
       => \A d \in Callers \ {c} : running'[d] = running[d]]_vars

\* The balance of account a, to the nearest cent.
BalanceCents(a) == NearestCents(ParseFloat(accounts[a].balance))

\* Account a holds, to the nearest cent, its opening balance plus the signed
\* sum of its transactions.
ConsistentToTheCent(a) ==
  BalanceCents(a) = openingBalance[a].cents + PostedCents(transactions, a)

\* Both callers have called op1 and op2 (in either order) with first
\* arguments id1 and id2.
Called(op1, id1, op2, id2) ==
  \E c, d \in Callers :
    /\ c # d
    /\ running[c].op = op1 /\ running[c].args[1] = id1
    /\ running[d].op = op2 /\ running[d].args[1] = id2

BothReturned == \A c \in Callers : running[c].pc = "returned"

\* Both callers have read the transaction and written the balance without
\* its amount, and neither has written the transaction yet.
BothReverted ==
  \A c \in Callers : running[c].pc \in {"await244", "await280"}

\* C13: two updateTransaction or deleteTransaction calls on one transaction,
\* both started before either resumes, each take its amount out of the
\* balance: while both are suspended the amount has been reverted twice, and
\* after two such deleteTransaction calls have returned the balance differs
\* from the opening balance plus the signed sum of the transactions left by
\* the amount of the deleted one.
C13_LostUpdateSameTransaction ==
  /\ \A id \in DOMAIN transactions :
       (BothReverted /\ \A c \in Callers : running[c].args[1] = id)
       => LET T == transactions[id]
          IN BalanceCents(T.accountId)
               = openingBalance[T.accountId].cents
                 + PostedCents(transactions, T.accountId) - 2 * SignedCents(T)
  /\ \A id \in issued.transactions :
       (/\ BothReturned
        /\ \A c \in Callers : /\ running[c].op = "deleteTransaction"
                              /\ running[c].args[1] = id
                              /\ running[c].transaction # Undefined)
       => LET T == running["a"].transaction
          IN /\ id \notin DOMAIN transactions
             /\ {running[c].value : c \in Callers} = {TRUE, FALSE}
             /\ BalanceCents(T.accountId)
                  = openingBalance[T.accountId].cents
                    + PostedCents(transactions, T.accountId) - SignedCents(T)

\* Both calls have returned, an updateTransaction and a deleteTransaction of
\* the same transaction, and the balance of the checking account is not, even
\* to the nearest cent, its opening balance plus its transactions.
C13_Witness ==
  /\ BothReturned
  /\ \E id \in issued.transactions :
       Called("updateTransaction", id, "deleteTransaction", id)
  /\ ~ConsistentToTheCent(1)

\* The same after two updateTransaction calls on one transaction.
C13_WitnessUpdateUpdate ==
  /\ BothReturned
  /\ \E id \in issued.transactions :
       Called("updateTransaction", id, "updateTransaction", id)
  /\ ~ConsistentToTheCent(1)

\* The same after two deleteTransaction calls on one transaction.
C13_WitnessDeleteDelete ==
  /\ BothReturned
  /\ \E id \in issued.transactions :
       Called("deleteTransaction", id, "deleteTransaction", id)
  /\ ~ConsistentToTheCent(1)

\* The id of the transaction a call is about.
TransactionOf(call) ==
  IF call.op = "none" THEN NoSuchId
  ELSE IF call.op = "createTransaction" THEN call.value.id
  ELSE call.args[1]

DifferentTransactions ==
  \A c, d \in Callers : c # d => TransactionOf(running[c]) # TransactionOf(running[d])

\* The signed amounts that the suspended calls have taken out of the balance
\* of account a while the transaction they read is still stored unchanged.
InFlightCents(a) ==
  LET reverted(c) ==
        IF /\ running[c].pc \in {"await244", "await280"}
           /\ running[c].transaction.accountId = a
        THEN SignedCents(running[c].transaction) ELSE 0
  IN reverted("a") + reverted("b")

C14_BothSuspended ==
  /\ BothReverted
  /\ DifferentTransactions
  /\ running["a"].transaction.accountId = running["b"].transaction.accountId

\* C15: every stored transaction names a stored account.
C15_ReferentialIntegrity ==
  \A i \in DOMAIN transactions : transactions[i].accountId \in DOMAIN accounts

\* The case of C15 for deleteAccount: once deleteAccount(id) has removed the
\* account, no stored transaction names id.
C15_DeleteAccountCascades ==
  (ret.op = "deleteAccount" /\ ret.value = TRUE)
  => \A i \in DOMAIN transactions : transactions[i].accountId # ret.args[1]

ReadingOps ==
  {"getAccounts", "getAccount", "getCategories", "getCategory", "getTransactions",
   "getTransaction", "getGlossaryTerms", "getGlossaryTerm"}
CategoryOps == {"createCategory", "updateCategory", "deleteCategory"}
GlossaryOps == {"createGlossaryTerm", "updateGlossaryTerm", "deleteGlossaryTerm"}

\* Account a is stored as before the call, with the balance it had.
BalanceKept(a) ==
  /\ a \in DOMAIN accounts
  /\ accounts[a].balance = old.accounts[a].balance

\* C17: the reading calls, the category calls and the glossary calls leave
\* every balance as it was; createAccount and deleteAccount leave the balance
\* of every other account as it was; updateAccount changes a balance only
\* when the partial has a balance, and only that of the account it names.
C17_BalanceFrame ==
  /\ ret.op \in ReadingOps \cup CategoryOps \cup GlossaryOps => BalancesUnchanged
  /\ ret.op = "createAccount"
     => /\ \A a \in DOMAIN old.accounts : BalanceKept(a)
        /\ DOMAIN accounts = DOMAIN old.accounts \cup {ret.value.id}
  /\ ret.op = "deleteAccount"
     => /\ \A a \in DOMAIN old.accounts \ {ret.args[1]} : BalanceKept(a)
        /\ DOMAIN accounts \subseteq DOMAIN old.accounts
  /\ ret.op = "updateAccount"
     => /\ DOMAIN accounts = DOMAIN old.accounts
        /\ \A a \in DOMAIN old.accounts :
             BalanceKept(a) \/ (a = ret.args[1] /\ "balance" \in DOMAIN ret.args[2])

\* updateAccount has changed the balance of the account it names while
\* another account is stored.
C17_Witness ==
  /\ ret.op = "updateAccount"
  /\ ret.args[1] \in DOMAIN old.accounts
  /\ ~BalanceKept(ret.args[1])
  /\ \E a \in DOMAIN accounts : a # ret.args[1]

CreatedMap ==
  [createAccount |-> "accounts", createCategory |-> "categories",
   createTransaction |-> "transactions", createGlossaryTerm |-> "glossaryTerms"]

\* C18: every stored record's id is the key it is stored under; every create
\* returns the value of the id counter, which is above every id ever issued
\* for that type (so the id is one no record of the type has or ever had),
\* whatever the payload carries; and no call changes the id of a record that
\* stays stored.
C18_IdsImmutable ==
  /\ \A m \in DOMAIN Snapshot : \A k \in DOMAIN Snapshot[m] : Snapshot[m][k].id = k
  /\ \A m \in DOMAIN issued : \A i \in issued[m] : i < nextId
  /\ ret.op \in DOMAIN CreatedMap
     => LET m == CreatedMap[ret.op]
        IN /\ ret.value.id = nextId - 1
           /\ ret.value.id \notin DOMAIN old[m]
           /\ Snapshot[m][ret.value.id] = ret.value
  /\ \A m \in DOMAIN Snapshot :
       \A k \in DOMAIN Snapshot[m] \cap DOMAIN old[m] :
         Snapshot[m][k].id = old[m][k].id

\* C18 for the creates alone, a payload that carries an id included.
C18_CreateAssignsFreshId ==
  /\ \A m \in DOMAIN issued : \A i \in issued[m] : i < nextId
  /\ ret.op \in DOMAIN CreatedMap
     => LET m == CreatedMap[ret.op]
        IN /\ ret.value.id = nextId - 1
           /\ ret.value.id \notin DOMAIN old[m]
           /\ Snapshot[m][ret.value.id] = ret.value

\* createCategory has returned for a payload that carried an id.
C18_CreateWithId ==
  /\ ret.op = "createCategory"
  /\ "id" \in DOMAIN ret.args[1]

(***************************************************************************)
(* Transactions of several dates, created, re-dated, deleted and listed.   *)
(***************************************************************************)
MaxListed == 3

ListingDates == {20240101, 20240201, 20240301}

DatedInputs ==
  [amount : {Dec(2500)}, description : {"Groceries"}, type : {"expense"},
   categoryId : {5}, accountId : {1}, date : ListingDates]

DatePartials == [date : ListingDates]

\* createTransaction, for as many transactions as are listed.
CreateDatedTransaction(insertTransaction) ==
  /\ Ready
  /\ old' = Snapshot
  /\ UNCHANGED running
  /\ nextId < FirstNewId + MaxListed
  /\ LET after == CreateTransactionIn(accounts, transactions, nextId, insertTransaction)
     IN /\ transactions' = after.transactions
        /\ accounts' = after.accounts
        /\ ret' = Return("createTransaction", <<insertTransaction>>, after.result)
  /\ nextId' = nextId + 1
  /\ issued' = [issued EXCEPT !.transactions = @ \cup DOMAIN transactions']
  /\ UNCHANGED <<categories, glossaryTerms, openingBalance>>

NextListing ==
  \/ \E t \in DatedInputs : CreateDatedTransaction(t)
  \/ \E id \in NewIds, p \in DatePartials : UpdateTransaction(id, p)
  \/ \E id \in NewIds : DeleteTransaction(id)
  \/ GetTransactions
  \/ TakeResult

SpecListing == Init /\ [][NextListing]_vars

\* C19: getTransactions returns the stored transactions, each once, later
\* dates first, and leaves the store as it was.
C19_ListingByDate ==
  ret.op = "getTransactions"
  => /\ Len(ret.value) = Cardinality(DOMAIN transactions)
     /\ {ret.value[i] : i \in DOMAIN ret.value}
          = {transactions[k] : k \in DOMAIN transactions}
     /\ \A i, j \in DOMAIN ret.value :
          /\ i < j => ret.value[i].date >= ret.value[j].date
          /\ i # j => ret.value[i].id # ret.value[j].id
     /\ Snapshot = old

\* Transactions dated 01-01, 03-01 and 02-01 were created in that order and
\* are listed 03-01, 02-01, 01-01.
C19_Witness ==
  /\ ret.op = "getTransactions"
  /\ [i \in DOMAIN ret.value |-> ret.value[i].id]
       = <<FirstNewId + 1, FirstNewId + 2, FirstNewId>>
  /\ [i \in DOMAIN ret.value |-> ret.value[i].date]
       = <<20240301, 20240201, 20240101>>

\* The ids that the records of a map carry are pairwise distinct.
DistinctIds(map) ==
  Cardinality({map[k].id : k \in DOMAIN map}) = Cardinality(DOMAIN map)

\* Four accounts of which one is the default, nine default categories (six
\* expense, three income), ten glossary terms, no transaction, and no id
\* twice within a type.
SeededStore ==
  /\ Cardinality(DOMAIN accounts) = 4
  /\ Cardinality({a \in DOMAIN accounts : accounts[a].isDefault = TRUE}) = 1
  /\ Cardinality(DOMAIN categories) = 9
  /\ Cardinality({c \in DOMAIN categories : categories[c].type = "expense"}) = 6
  /\ Cardinality({c \in DOMAIN categories : categories[c].type = "income"}) = 3
  /\ \A c \in DOMAIN categories : categories[c].isDefault = TRUE
  /\ Cardinality(DOMAIN glossaryTerms) = 10
  /\ DOMAIN transactions = {}
  /\ DistinctIds(accounts)
  /\ DistinctIds(categories)
  /\ DistinctIds(glossaryTerms)

\* C20: the state the constructor leaves, before any call, is the seeded
\* store.
C20_InitialState == SeededStore /\ [][TRUE]_vars

\* The state the constructor leaves: the maps as initializeDefaults filled
\* them, the id counter after the last seeded id, no call made.
C20_Witness ==
  /\ accounts = SeededAccounts
  /\ categories = SeededCategories
  /\ glossaryTerms = SeededGlossaryTerms
  /\ transactions = NoTransactions
  /\ nextId = FirstNewId
  /\ ret = NoCall
  /\ issued.transactions = {}

\* The string s spells a decimal(12,2) value: a whole number of cents of at
\* most twelve digits.
IsFixedPoint(s) ==
  /\ IsDecimal(s)
  /\ (IF s.cents < 0 THEN -s.cents ELSE s.cents) \div 1000000 < 1000000

\* C21: after any sequence of createTransaction, updateTransaction and
\* deleteTransaction calls with decimal(12,2) amounts, every stored balance
\* is a decimal(12,2) value.
C21_FixedPointBalances ==
  \A a \in DOMAIN accounts : IsFixedPoint(accounts[a].balance)

(***************************************************************************)
(* Transactions that differ in category, description and date.             *)
(***************************************************************************)
\* A seeded expense category, a seeded income category, and no category.
CategoryRefs == {FirstCategoryId, FirstCategoryId + 6, NoSuchId}

\* The fields that take no part in the balance adjustment, and values of them.
UnpostedFields == {"categoryId", "description", "date"}

Unposted ==
  {[categoryId |-> FirstCategoryId, description |-> "Groceries", date |-> 20240101],
   [categoryId |-> FirstCategoryId + 6, description |-> "Rent", date |-> 20240201],
   [categoryId |-> NoSuchId, description |-> "Rent", date |-> 20240101]}

VariedInputs ==
  {Merge([amount |-> Dec(12801), type |-> t, accountId |-> 1], u) :
     t \in Types, u \in Unposted}

VariedPartials ==
  {[amount |-> Dec(2500)], [type |-> "income"], <<>>}
  \cup {[categoryId |-> c] : c \in CategoryRefs}

NextVaried ==
  \/ \E t \in VariedInputs : CreateTransaction(t)
  \/ \E id \in TransactionIdArgs, p \in VariedPartials : UpdateTransaction(id, p)
  \/ \E id \in TransactionIdArgs : DeleteTransaction(id)
  \/ TakeResult

SpecVaried == Init /\ [][NextVaried]_vars

\* The transactions of txs with the fields of u in place of their own.
Revalued(txs, u) == [i \in DOMAIN txs |-> Merge(txs[i], u)]

\* The transactions of txs without the fields that take no part in the
\* balance adjustment.
PostedFields(txs) ==
  [i \in DOMAIN txs |-> Restrict(txs[i], DOMAIN txs[i] \ UnpostedFields)]

\* Two outcomes of a call with the same balances and, but for the unposted
\* fields, the same transactions.
SameBalances(one, other) ==
  /\ one.accounts = other.accounts
  /\ PostedFields(one.transactions) = PostedFields(other.transactions)

\* The partial p with the values of u for the unposted fields it has.
RevaluedPartial(p, u) ==
  [f \in DOMAIN p |-> IF f \in UnpostedFields THEN u[f] ELSE p[f]]

\* C22: createTransaction and updateTransaction store whatever categoryId
\* they are given and post the amount all the same; and from every reachable
\* store (each is the store of a state between calls), a call made with other values of categoryId, description and date,
\* on a store whose transactions differ in those fields alone, leaves the
\* same balances and again transactions that differ in those fields alone
\* (so that two runs that differ only in those values end with the same
\* balances).
C22_CategoryUnchecked ==
  /\ ret.op = "createTransaction"
     => /\ transactions[ret.value.id] = ret.value
        /\ ret.value.categoryId = ret.args[1].categoryId
        /\ accounts[ret.args[1].accountId].balance
             = PostedBalance(old.accounts[ret.args[1].accountId], ret.args[1])
  /\ (ret.op = "updateTransaction" /\ ret.value # Undefined)
     => /\ transactions[ret.args[1]] = ret.value
        /\ "categoryId" \in DOMAIN ret.args[2]
           => ret.value.categoryId = ret.args[2].categoryId
  /\ Ready =>
     \A u \in Unposted :
       LET other == Revalued(transactions, u)
       IN /\ \A t \in VariedInputs :
               SameBalances(CreateTransactionIn(accounts, other, nextId, Merge(t, u)),
                            CreateTransactionIn(accounts, transactions, nextId, t))
          /\ \A id \in DOMAIN transactions :
               /\ \A p \in VariedPartials :
                    SameBalances(
                      UpdateTransactionIn(accounts, other, id, RevaluedPartial(p, u)),
                      UpdateTransactionIn(accounts, transactions, id, p))
               /\ SameBalances(DeleteTransactionIn(accounts, other, id),
                               DeleteTransactionIn(accounts, transactions, id))

\* createTransaction has stored an income under a categoryId that names no
\* category and has changed the balance of its account.
C22_Witness ==
  /\ ret.op = "createTransaction"
  /\ ret.value.categoryId \notin DOMAIN categories
  /\ ret.value.id \in DOMAIN transactions
  /\ accounts[ret.value.accountId].balance # old.accounts[ret.value.accountId].balance

\* updateTransaction has given an income transaction an expense category.
C22_WitnessMismatch ==
  /\ ret.op = "updateTransaction"
  /\ ret.value # Undefined
  /\ ret.value.type = "income"
  /\ ret.value.categoryId \in DOMAIN categories
  /\ categories[ret.value.categoryId].type = "expense"
  /\ "categoryId" \in DOMAIN ret.args[2]

(***************************************************************************)
(* Updates whose partial holds an empty string.                            *)
(***************************************************************************)
\* accountId: "" and type: "": present in the partial and falsy.
FalsyPartials == {[accountId |-> EmptyId], [type |-> ""]}

NextFalsy ==
  \/ \E t \in LiveTransactionInputs : CreateTransaction(t)
  \/ \E id \in TransactionIdArgs, p \in FalsyPartials : UpdateTransaction(id, p)
  \/ \E id \in TransactionIdArgs : DeleteTransaction(id)
  \/ TakeResult

SpecFalsy == Init /\ [][NextFalsy]_vars

\* The cents of the balance string s, to the nearest cent.
CentsOf(s) == NearestCents(ParseFloat(s))

\* The signed amount of transaction t if it names account a, else nothing.
PostedOn(t, a) == IF t.accountId = a THEN SignedCents(t) ELSE 0

\* C23: updateTransaction applies the forward delta to the account that the
\* stored merged record names, and the delta is the signed amount of that
\* record: every balance is (to the cent) what it was, less the old record's
\* signed amount on the old record's account, plus the stored record's
\* signed amount on the stored record's account.
C23_ForwardDeltaFromStored ==
  (ret.op = "updateTransaction" /\ ret.value # Undefined)
  => LET id == ret.args[1]
         before == old.transactions[id]
         stored == transactions[id]
     IN /\ stored = ret.value
        /\ \A a \in DOMAIN accounts :
             CentsOf(accounts[a].balance)
               = CentsOf(old.accounts[a].balance)
                 - PostedOn(before, a) + PostedOn(stored, a)

\* C23 for the partials whose fields are all non-empty.
C23_ForwardDeltaOfTruthyPartials ==
  (/\ ret.op = "updateTransaction"
   /\ ret.value # Undefined
   /\ "accountId" \in DOMAIN ret.args[2] => ret.args[2].accountId # EmptyId
   /\ "type" \in DOMAIN ret.args[2] => ret.args[2].type # "")
  => LET before == old.transactions[ret.args[1]]
         stored == transactions[ret.args[1]]
     IN \A a \in DOMAIN accounts :
          CentsOf(accounts[a].balance)
            = CentsOf(old.accounts[a].balance)
              - PostedOn(before, a) + PostedOn(stored, a)

\* updateTransaction has returned for a partial that moved the transaction
\* to another stored account.
C23_TruthyReassigned ==
  /\ ret.op = "updateTransaction"
  /\ ret.value # Undefined
  /\ "accountId" \in DOMAIN ret.args[2]
  /\ ret.value.accountId # old.transactions[ret.args[1]].accountId
  /\ ret.value.accountId \in DOMAIN accounts

(***************************************************************************)
(* Several transactions on one account, updated with what they hold.       *)
(***************************************************************************)
RepeatedInputs ==
  [amount : {Dec(12801), Dec(10)}, description : {"Salary"}, type : {"income"},
   categoryId : {FirstCategoryId + 6}, accountId : {1}, date : {20240101}]

\* The empty partial and the one that repeats the amount of transaction id.
RepeatingPartials(id) ==
  {<<>>} \cup {[amount |-> transactions[i].amount] : i \in DOMAIN transactions \cap {id}}

NextRepeated ==
  \/ \E t \in RepeatedInputs : CreateDatedTransaction(t)
  \/ \E id \in NewIds : \E p \in RepeatingPartials(id) : UpdateTransaction(id, p)
  \/ \E id \in NewIds : DeleteTransaction(id)
  \/ TakeResult

SpecRepeated == Init /\ [][NextRepeated]_vars

\* The partial p repeats the values that the record T holds.
Repeats(p, T) == \A f \in DOMAIN p : f \in DOMAIN T /\ p[f] = T[f]

\* C24: updateTransaction(id, p) on a stored transaction, with p empty or
\* repeating the transaction's values, leaves every balance and every
\* transaction as they were.
C24_RepeatingUpdateIsNoOp ==
  (/\ ret.op = "updateTransaction"
   /\ ret.args[1] \in DOMAIN old.transactions
   /\ Repeats(ret.args[2], old.transactions[ret.args[1]]))
  => /\ Snapshot = old
     /\ ret.value = old.transactions[ret.args[1]]

(***************************************************************************)
(* Several transactions on two accounts, moved between them.               *)
(***************************************************************************)
MovedInputs ==
  [amount : {Dec(2500)}, description : {"Groceries"}, type : {"expense"},
   categoryId : {FirstCategoryId}, accountId : {1, 2}, date : {20240101}]

MovingPartials == {[accountId |-> 1], [accountId |-> 2], [amount |-> Dec(12801)]}

NextMoved ==
  \/ \E t \in MovedInputs : CreateDatedTransaction(t)
  \/ \E id \in NewIds, p \in MovingPartials : UpdateTransaction(id, p)
  \/ \E id \in NewIds : DeleteTransaction(id)
  \/ TakeResult

SpecMoved == Init /\ [][NextMoved]_vars

TransactionOps == {"createTransaction", "updateTransaction", "deleteTransaction"}

\* The id of the transaction that the returned call was about.
ReturnedId ==
  IF ret.op = "createTransaction" THEN ret.value.id ELSE ret.args[1]

\* The accounts whose balance the returned call may adjust: the account the
\* transaction named before the call and the one it names after it.
Adjustable ==
  (IF ReturnedId \in DOMAIN old.transactions
   THEN {old.transactions[ReturnedId].accountId} ELSE {})
  \cup (IF ReturnedId \in DOMAIN transactions
        THEN {transactions[ReturnedId].accountId} ELSE {})

\* The record r without its balance.
ButBalance(r) == Restrict(r, DOMAIN r \ {"balance"})

\* C25: createTransaction, updateTransaction and deleteTransaction change at
\* most the balance of the transaction's original account and of its target
\* account: the other fields of those accounts, the other accounts, the
\* other transactions, the categories and the glossary terms stay as they
\* were.
C25_AdjustmentFrame ==
  ret.op \in TransactionOps
  => /\ categories = old.categories
     /\ glossaryTerms = old.glossaryTerms
     /\ DOMAIN accounts = DOMAIN old.accounts
     /\ \A a \in DOMAIN accounts :
          IF a \in Adjustable
          THEN ButBalance(accounts[a]) = ButBalance(old.accounts[a])
          ELSE accounts[a] = old.accounts[a]
     /\ \A k \in (DOMAIN transactions \cup DOMAIN old.transactions) \ {ReturnedId} :
          /\ k \in DOMAIN transactions \cap DOMAIN old.transactions
          /\ transactions[k] = old.transactions[k]

\* updateTransaction has moved a transaction from one stored account to
\* another and changed both balances, with a third account and another
\* transaction stored.
C25_Witness ==
  /\ ret.op = "updateTransaction"
  /\ Cardinality(Adjustable \cap DOMAIN accounts) = 2
  /\ \A a \in Adjustable : accounts[a].balance # old.accounts[a].balance
  /\ DOMAIN accounts \ Adjustable # {}
  /\ DOMAIN transactions \ {ReturnedId} # {}

(***************************************************************************)
(* Accounts created and deleted around the transaction calls, and no       *)
(* updateAccount.                                                          *)
(***************************************************************************)
NextTurnover ==
  \/ \E insertAccount \in AccountInputs : CreateAccount(insertAccount)
  \/ \E id \in AccountIdArgs : DeleteAccount(id)
  \/ \E t \in TransactionInputs : CreateTransaction(t)
  \/ \E id \in TransactionIdArgs, p \in TransactionPartials : UpdateTransaction(id, p)
  \/ \E id \in TransactionIdArgs : DeleteTransaction(id)
  \/ TakeResult

SpecTurnover == Init /\ [][NextTurnover]_vars

\* C26: with accounts created and deleted, transactions created against
\* accounts that do not exist and moved between missing and stored accounts,
\* and no balance edited by updateAccount, the balance of every stored
\* account is its balance at creation plus the signed sum of the stored
\* transactions that name it.
C26_ConsistencySurvivesTurnover ==
  \A a \in DOMAIN accounts :
    LET posted == {i \in DOMAIN transactions : transactions[i].accountId = a}
    IN accounts[a].balance
         = Dec(openingBalance[a].cents + SumSignedCents(transactions, posted))

\* C26 to the nearest cent.
C26_TurnoverToTheCent == \A a \in DOMAIN accounts : ConsistentToTheCent(a)

\* updateTransaction has moved a transaction that named no stored account
\* to a stored one.
C26_MovedFromMissing ==
  /\ ret.op = "updateTransaction"
  /\ ret.value # Undefined
  /\ old.transactions[ret.args[1]].accountId \notin DOMAIN old.accounts
  /\ ret.value.accountId \in DOMAIN accounts

\* The deleteTransaction call has written a balance: it found the
\* transaction and the account the transaction names (lines 268-281).
DeleteReverted(call) ==
  /\ call.op = "deleteTransaction"
  /\ call.transaction # Undefined
  /\ call.transaction.accountId \in DOMAIN accounts

\* C27: however the calls interleave, a deleteTransaction that has returned
\* false has changed no balance, and the deletions of one transaction id
\* apply at most one reverse delta.
C27_DeleteRevertsOnce ==
  /\ \A c \in Callers :
       (/\ running[c].op = "deleteTransaction"
        /\ running[c].pc = "returned"
        /\ running[c].value = FALSE)
       => ~DeleteReverted(running[c])
  /\ \A id \in issued.transactions :
       Cardinality({c \in Callers : /\ DeleteReverted(running[c])
                                    /\ running[c].args[1] = id}) <= 1

\* A deleteTransaction call has returned false after writing a balance.
C27_FalseAfterRevert ==
  \E c \in Callers :
    /\ DeleteReverted(running[c])
    /\ running[c].pc = "returned"
    /\ running[c].value = FALSE

\* C28: once a deleteTransaction(id) call has returned true, no transaction
\* is stored under id in any later state, whatever calls were in flight.
C28_DeletedStaysDeleted ==
  \A c \in Callers :
    (/\ running[c].op = "deleteTransaction"
     /\ running[c].pc = "returned"
     /\ running[c].value = TRUE)
    => running[c].args[1] \notin DOMAIN transactions

\* The call is suspended at one of the awaits of createTransaction (225),
\* updateTransaction (244, 261) or deleteTransaction (280).
Suspended(call) == call.pc \in {"await225", "await244", "await261", "await280"}

\* Caller c is the only one that has called anything.
Alone(c) == \A d \in Callers \ {c} : running[d] = Idle

\* C29: while a createTransaction, updateTransaction or deleteTransaction
\* call is suspended at an await, every stored account holds its opening
\* balance plus the signed sum of the transactions stored for it; stated to
\* the nearest cent and for a call that runs alone.
C29_ConsistentAtSuspension ==
  \A c \in Callers :
    (Suspended(running[c]) /\ Alone(c))
    => \A a \in DOMAIN accounts : ConsistentToTheCent(a)

\* The same at the awaits that follow the write of the new amount (225 and
\* 261): there the transaction and the balance have both been written.
C29_ConsistentAfterApply ==
  \A c \in Callers :
    (running[c].pc \in {"await225", "await261"} /\ Alone(c))
    => \A a \in DOMAIN accounts : ConsistentToTheCent(a)

\* A call running alone is suspended at the await that follows the revert
\* (244 or 280), the transaction is still stored, and its account is off by
\* the whole amount.
C29_RevertedButStored ==
  \E c \in Callers :
    /\ WritesPending(running[c])
    /\ Alone(c)
    /\ running[c].args[1] \in DOMAIN transactions
    /\ ~ConsistentToTheCent(running[c].transaction.accountId)
====
